---- MODULE Spec2Model ----
(***************************************************************************)
(* Patient task-checklist state machine of the hospice dashboard           *)
(* (public/app.js): the per-patient task tree, the progress percentage,    *)
(* the mutation handlers of the timeline, and the archive / restore        *)
(* operations on the active and archived collections of local storage.     *)
(*                                                                         *)
(* Sequences are 1-based here; the source indexes arrays from 0, so the    *)
(* model index i stands for the source index i-1.                          *)
(***************************************************************************)
EXTENDS Integers, Sequences, FiniteSets, TLC

(***************************************************************************)
(* Bounds of the model.                                                    *)
(***************************************************************************)
\* number of user operations explored in one behaviour
MaxOps == 2
\* length of the text typed into a free-text field
MaxValueLen == 1

(***************************************************************************)
(* Task tree template.                                                     *)
(***************************************************************************)
\* a checkbox sub-subtask { name, complete: false }
Leaf(n) == [name |-> n, type |-> "checkbox", value |-> <<>>, complete |-> FALSE]

\* a free-text sub-subtask { name, type: 'input', value: '', complete: false }
InputLeaf(n) == [name |-> n, type |-> "input", value |-> <<>>, complete |-> FALSE]

\* Sub with the flag written as true in the literal
SubDone(n) == [name |-> n, complete |-> TRUE, subSubtasks |-> <<>>]

\* a subtask without sub-subtasks { name, complete: false }
Sub(n) == [name |-> n, complete |-> FALSE, subSubtasks |-> <<>>]

\* a subtask with sub-subtasks { name, complete: false, subSubtasks: [...] }
SubWith(n, leaves) == [name |-> n, complete |-> FALSE, subSubtasks |-> leaves]

initializePatientTasks ==
    << [id |-> "wr", subtasks |->
          << SubWith("Written Request", << Leaf("Completed by Patient") >>),
             Sub("Payment Schedule Form") >>],
       [id |-> "invoice", subtasks |->
          << Sub("Sent Invoice"),
             SubWith("Payment Received",
                     << Leaf("Paid via Quickbooks"), Leaf("Paid via Check") >>) >>],
       [id |-> "records", subtasks |->
          << SubWith("Request Medical Records",
                     << InputLeaf("Hospice/Doctor Name"),
                        InputLeaf("Request Method (Email/Doximity)") >>),
             Sub("Medical Records Received") >>],
       [id |-> "visit1", subtasks |->
          << SubWith("Scheduled", << InputLeaf("Visit 1 Date") >>),
             Sub("Complete") >>],
       [id |-> "visit2", subtasks |->
          << SubWith("Scheduled", << InputLeaf("Visit 2 Date") >>),
             Sub("Complete") >>],
       [id |-> "attending", subtasks |->
          << Sub("Started"), Sub("Complete"), Sub("In Emails Drafts") >>],
       [id |-> "consulting", subtasks |->
          << SubWith("Received", << InputLeaf("CP Name") >>) >>],
       [id |-> "rxnt", subtasks |->
          << Sub("Patient Information Inputted"),
             SubWith("Prescription", << Leaf("Pending"), Leaf("Sent") >>) >>],
       [id |-> "pharmacy", subtasks |->
          << Sub("Email Drafted"), Sub("Email Sent") >>],
       [id |-> "ingestion", subtasks |->
          << SubWith("Ingestion Date", << InputLeaf("Date") >>),
             Sub("Medication Received by Patient"),
             Sub("Medication Taken by Patient") >>],
       [id |-> "followup", subtasks |->
          << Sub("Completed"), Sub("Sent to EOLOA") >> ] >>

(***************************************************************************)
(* calculateProgress.                                                      *)
(***************************************************************************)
\* number of elements of a sequence of records whose complete flag is set
RECURSIVE CountComplete(_)
CountComplete(s) ==
    IF s = <<>> THEN 0
    ELSE (IF Head(s).complete THEN 1 ELSE 0) + CountComplete(Tail(s))

\* array.find(s => s.name === n)?.complete || false
FindComplete(s, n) ==
    LET hits == {i \in 1..Len(s) : s[i].name = n}
    IN  IF hits = {} THEN FALSE
        ELSE s[CHOOSE i \in hits : \A j \in hits : i <= j].complete

\* paymentReceived?.subSubtasks?.find(s => s.name === n)?.complete || false
FindPaid(task, n) ==
    LET hits == {i \in 1..Len(task.subtasks) : task.subtasks[i].name = "Payment Received"}
    IN  IF hits = {} THEN FALSE
        ELSE FindComplete(task.subtasks[CHOOSE i \in hits : \A j \in hits : i <= j].subSubtasks, n)

\* InvoiceCompleted reading the stored flag of 'Payment Received' instead of
\* the two payment sub-subtasks
InvoiceCompletedStoredFlag(task) ==
    LET sentInvoice == FindComplete(task.subtasks, "Sent Invoice")
        paymentReceived == FindComplete(task.subtasks, "Payment Received")
    IN  IF sentInvoice
        THEN 1 + (IF paymentReceived THEN 1 ELSE 0)
        ELSE 0

\* the invoice branch of calculateProgress: completed items of the task
InvoiceCompleted(task) ==
    LET sentInvoice == FindComplete(task.subtasks, "Sent Invoice")
        paidViaQuickbooks == FindPaid(task, "Paid via Quickbooks")
        paidViaCheck == FindPaid(task, "Paid via Check")
    IN  IF sentInvoice
        THEN 1 + (IF paidViaQuickbooks \/ paidViaCheck THEN 1 ELSE 0)
        ELSE 0

\* SubtaskCompleted reading the stored flag of every subtask, as the task
\* status code of toggleSubSubtask does
SubtaskCompletedStoredFlag(subtask) == IF subtask.complete THEN 1 ELSE 0

\* the standard branch of calculateProgress: one subtask's contribution
SubtaskCompleted(subtask) ==
    IF Len(subtask.subSubtasks) > 0
    THEN (IF CountComplete(subtask.subSubtasks) = Len(subtask.subSubtasks) THEN 1 ELSE 0)
    ELSE (IF subtask.complete THEN 1 ELSE 0)

RECURSIVE StandardCompleted(_)
StandardCompleted(subtasks) ==
    IF subtasks = <<>> THEN 0
    ELSE SubtaskCompleted(Head(subtasks)) + StandardCompleted(Tail(subtasks))

\* completedItems added by one task
TaskCompleted(task) ==
    IF task.id = "invoice" THEN InvoiceCompleted(task)
    ELSE StandardCompleted(task.subtasks)

\* TaskTotal counting the sub-subtasks as items of their own
TaskTotalWithLeaves(task) ==
    Len(task.subtasks)
    + Cardinality({<<s, l>> \in (1..Len(task.subtasks)) \X (1..2) :
                      l <= Len(task.subtasks[s].subSubtasks)})

\* totalItems added by one task
TaskTotal(task) == Len(task.subtasks)

RECURSIVE CompletedItems(_)
CompletedItems(tasks) ==
    IF tasks = <<>> THEN 0
    ELSE TaskCompleted(Head(tasks)) + CompletedItems(Tail(tasks))

RECURSIVE TotalItems(_)
TotalItems(tasks) ==
    IF tasks = <<>> THEN 0
    ELSE TaskTotal(Head(tasks)) + TotalItems(Tail(tasks))

\* Percentage rounded to the nearest multiple of ten
PercentageNearestTen(completedItems, totalItems) ==
    IF totalItems > 0
    THEN 10 * ((20 * completedItems + totalItems) \div (2 * totalItems))
    ELSE 0

\* Percentage with Math.floor in place of Math.round
PercentageFloor(completedItems, totalItems) ==
    IF totalItems > 0 THEN (100 * completedItems) \div totalItems ELSE 0

\* Math.round((completedItems / totalItems) * 100), round half up; the quotient
\* is never within rounding error of a half for the item counts of the template
Percentage(completedItems, totalItems) ==
    IF totalItems > 0
    THEN (200 * completedItems + totalItems) \div (2 * totalItems)
    ELSE 0

\* calculateProgress on the task list of one patient
ProgressOf(tasks) == Percentage(CompletedItems(tasks), TotalItems(tasks))

\* calculateProgress(patientId) on a task-completion map
calculateProgress(data, patientId) ==
    IF patientId \notin DOMAIN data THEN 0
    ELSE ProgressOf(data[patientId])

(***************************************************************************)
(* Tree mutations of the handlers.                                         *)
(***************************************************************************)
\* value.trim(): the text without its leading and trailing blanks
RECURSIVE TrimLeft(_)
TrimLeft(v) == IF v # <<>> /\ Head(v) = " " THEN TrimLeft(Tail(v)) ELSE v

RECURSIVE TrimRight(_)
TrimRight(v) ==
    IF v # <<>> /\ v[Len(v)] = " " THEN TrimRight(SubSeq(v, 1, Len(v) - 1)) ELSE v

Trim(v) == TrimRight(TrimLeft(v))

\* FlipSubtask that also writes the new flag into the sub-subtasks
FlipSubtaskCascade(tasks, t, s) ==
    LET checked == ~tasks[t].subtasks[s].complete
    IN  [tasks EXCEPT ![t].subtasks[s] =
            [@ EXCEPT !.complete = checked,
                      !.subSubtasks =
                          [l \in 1..Len(@) |-> [@[l] EXCEPT !.complete = checked]]]]

\* toggleSubtask: task.subtasks[subtaskIndex].complete = !complete
FlipSubtask(tasks, t, s) ==
    [tasks EXCEPT ![t].subtasks[s].complete = ~@]

\* RecalcSubtask setting the flag as soon as one sub-subtask is complete
RecalcSubtaskAny(subtask) ==
    [subtask EXCEPT !.complete = (CountComplete(subtask.subSubtasks) > 0)]

\* "Recalculate subtask completion status" of toggleSubSubtask / updateSubSubtaskInput
RecalcSubtask(subtask) ==
    [subtask EXCEPT !.complete =
        (CountComplete(subtask.subSubtasks) = Len(subtask.subSubtasks))]

\* FlipSubSubtask without the recomputation of the parent subtask
FlipSubSubtaskOnly(tasks, t, s, l) ==
    [tasks EXCEPT ![t].subtasks[s].subSubtasks[l].complete = ~@]

\* toggleSubSubtask: flip the leaf, then recompute the parent subtask
FlipSubSubtask(tasks, t, s, l) ==
    LET flipped == [tasks EXCEPT ![t].subtasks[s].subSubtasks[l].complete = ~@]
    IN  [flipped EXCEPT ![t].subtasks[s] = RecalcSubtask(@)]

\* SetSubSubtaskInput deriving complete from value.length, without trim()
SetSubSubtaskInputUntrimmed(tasks, t, s, l, value) ==
    LET stored == [tasks EXCEPT ![t].subtasks[s].subSubtasks[l].value = value,
                                ![t].subtasks[s].subSubtasks[l].complete =
                                    (Len(value) > 0)]
    IN  [stored EXCEPT ![t].subtasks[s] = RecalcSubtask(@)]

\* updateSubSubtaskInput: store the text, derive complete, recompute the parent
SetSubSubtaskInput(tasks, t, s, l, value) ==
    LET stored == [tasks EXCEPT ![t].subtasks[s].subSubtasks[l].value = value,
                                ![t].subtasks[s].subSubtasks[l].complete =
                                    (Len(Trim(value)) > 0)]
    IN  [stored EXCEPT ![t].subtasks[s] = RecalcSubtask(@)]

\* MarkAll that sets the subtask flags and leaves the sub-subtasks as they are
MarkAllSubtasksOnly(tasks) ==
    [t \in 1..Len(tasks) |->
        [tasks[t] EXCEPT !.subtasks =
            [s \in 1..Len(tasks[t].subtasks) |->
                [tasks[t].subtasks[s] EXCEPT !.complete = TRUE]]]]

\* markAllTasksComplete: every subtask and sub-subtask complete = true
MarkAll(tasks) ==
    [t \in 1..Len(tasks) |->
        [tasks[t] EXCEPT !.subtasks =
            [s \in 1..Len(tasks[t].subtasks) |->
                [tasks[t].subtasks[s] EXCEPT
                    !.complete = TRUE,
                    !.subSubtasks =
                        [l \in 1..Len(tasks[t].subtasks[s].subSubtasks) |->
                            [tasks[t].subtasks[s].subSubtasks[l] EXCEPT
                                !.complete = TRUE]]]]]]

(***************************************************************************)
(* The status of the task header each handler derives after its mutation.  *)
(***************************************************************************)
\* "Determine new status" from completedSubtasks and totalSubtasks
StatusOf(completedSubtasks, totalSubtasks) ==
    IF completedSubtasks = 0 THEN "not-started"
    ELSE IF completedSubtasks = totalSubtasks THEN "complete"
    ELSE "partial"

\* completedSubtasks of the invoice branch the three handlers share
InvoiceStatusCount(task) ==
    LET sentInvoice == FindComplete(task.subtasks, "Sent Invoice")
        paidViaQuickbooks == FindPaid(task, "Paid via Quickbooks")
        paidViaCheck == FindPaid(task, "Paid via Check")
    IN  IF sentInvoice /\ (paidViaQuickbooks \/ paidViaCheck) THEN Len(task.subtasks)
        ELSE IF sentInvoice THEN 1
        ELSE 0

\* completedSubtasks of the standard branch of toggleSubtask: a subtask with
\* sub-subtasks counts when all of them are complete, another by its flag
RECURSIVE CountAllComplete(_)
CountAllComplete(subtasks) ==
    IF subtasks = <<>> THEN 0
    ELSE LET subtask == Head(subtasks)
             allSubSubtasksComplete ==
                 \A l \in 1..Len(subtask.subSubtasks) : subtask.subSubtasks[l].complete
         IN  (IF Len(subtask.subSubtasks) > 0
              THEN (IF allSubSubtasksComplete THEN 1 ELSE 0)
              ELSE (IF subtask.complete THEN 1 ELSE 0))
             + CountAllComplete(Tail(subtasks))

\* the status toggleSubtask writes into the task header
toggleSubtaskStatus(task) ==
    StatusOf(IF task.id = "invoice" THEN InvoiceStatusCount(task)
             ELSE CountAllComplete(task.subtasks),
             Len(task.subtasks))

\* the status toggleSubSubtask writes: the standard branch counts stored flags
toggleSubSubtaskStatus(task) ==
    StatusOf(IF task.id = "invoice" THEN InvoiceStatusCount(task)
             ELSE CountComplete(task.subtasks),
             Len(task.subtasks))

\* the status updateSubSubtaskInput writes: the same copy of the code
updateSubSubtaskInputStatus(task) ==
    StatusOf(IF task.id = "invoice" THEN InvoiceStatusCount(task)
             ELSE CountComplete(task.subtasks),
             Len(task.subtasks))

\* the status class generateImprovedTimelineSteps renders a task with: the
\* invoice branch looks for 'Paid Invoice' and 'Paid via Check' among the
\* subtasks, the standard branch counts the stored subtask flags
generateImprovedTimelineStepsStatus(task) ==
    IF task.id = "invoice"
    THEN LET sentInvoice == FindComplete(task.subtasks, "Sent Invoice")
             paidInvoice == FindComplete(task.subtasks, "Paid Invoice")
             paidViaCheck == FindComplete(task.subtasks, "Paid via Check")
         IN  IF sentInvoice /\ (paidInvoice \/ paidViaCheck) THEN "complete"
             ELSE IF sentInvoice THEN "partial"
             ELSE "not-started"
    ELSE StatusOf(CountComplete(task.subtasks), Len(task.subtasks))

\* the status class refreshAllTaskStatuses gives the task of a card
refreshAllTaskStatusesStatus(task) ==
    StatusOf(IF task.id = "invoice" THEN InvoiceStatusCount(task)
             ELSE CountAllComplete(task.subtasks),
             Len(task.subtasks))

(***************************************************************************)
(* Patients, identifiers and the backend sheet.                            *)
(***************************************************************************)
\* String.prototype.toLowerCase on one character of the model's alphabet
LowerChar(c) == CASE c = "A" -> "a" [] c = "B" -> "b" [] OTHER -> c

ToLowerCase(str) == [i \in 1..Len(str) |-> LowerChar(str[i])]

\* str.replace(/\s+/g, '-'): every run of blanks becomes one hyphen
RECURSIVE ReplaceBlanks(_)
ReplaceBlanks(str) ==
    IF str = <<>> THEN <<>>
    ELSE IF Head(str) = " "
         THEN <<"-">> \o ReplaceBlanks(TrimLeft(str))
         ELSE <<Head(str)>> \o ReplaceBlanks(Tail(str))

\* haystack.includes(needle)
Includes(haystack, needle) ==
    \E i \in 1..(Len(haystack) + 1) :
        /\ i + Len(needle) - 1 <= Len(haystack)
        /\ SubSeq(haystack, i, i + Len(needle) - 1) = needle

\* a record without an id field
NoId == [n |-> 0, name |-> <<>>, kind |-> "none"]

\* 'PAT-' + Date.now(), generated once at intake
PAT(n) == [n |-> n, name |-> <<>>, kind |-> "PAT"]

\* `patient-${name.replace(/\s+/g, '-').toLowerCase()}-${index}`
IndexedId(name, index) ==
    [n |-> index, name |-> ToLowerCase(ReplaceBlanks(name)), kind |-> "patient-index"]

\* `patient-${name...}-${Date.now()}`: a key no earlier call has produced
TimestampId(name) ==
    [n |-> 0, name |-> ToLowerCase(ReplaceBlanks(name)), kind |-> "patient-now"]

\* the old index-based key `patient-${index}`
OldId(index) == [n |-> index, name |-> <<>>, kind |-> "patient-old"]

Adam == <<"A", "d">>
Beth == <<"B", "a">>

\* a patient record as stored by savePatientToLocal, before any archive stamp
Patient(name, id) ==
    [name |-> name, id |-> id, archivedBy |-> "", archivedReason |-> ""]

\* rows the backend can serve for /api/read-active
SheetChoices ==
    { << Patient(Adam, PAT(1)) >>,
      << Patient(Beth, PAT(2)), Patient(Adam, PAT(1)) >>,
      << Patient(Adam, NoId) >> }

\* contents of localStorage 'activePatients' when the page is opened
ActiveChoices ==
    { << >>, << Patient(Adam, PAT(1)), Patient(Beth, PAT(2)) >> }

\* a tree with every item done and every free-text field filled in
CompleteTree ==
    LET all == MarkAll(initializePatientTasks)
    IN  [t \in 1..Len(all) |->
          [all[t] EXCEPT !.subtasks =
            [s \in 1..Len(all[t].subtasks) |->
              [all[t].subtasks[s] EXCEPT !.subSubtasks =
                [l \in 1..Len(all[t].subtasks[s].subSubtasks) |->
                  IF all[t].subtasks[s].subSubtasks[l].type = "input"
                  THEN [all[t].subtasks[s].subSubtasks[l] EXCEPT !.value = <<"x">>]
                  ELSE all[t].subtasks[s].subSubtasks[l]]]]]]

\* a complete tree but for 'Payment Schedule Form'
NearlyDone == FlipSubtask(CompleteTree, 1, 2)

\* the empty task-completion map {}
EmptyMap == [k \in {} |-> <<>>]

\* contents of localStorage 'taskCompletionData' when the page is opened
StoredChoices ==
    { EmptyMap, [k \in {PAT(1), PAT(2)} |-> NearlyDone] }

\* obj[k] = v
Put(f, k, v) == [x \in (DOMAIN f) \cup {k} |-> IF x = k THEN v ELSE f[x]]

\* delete obj[k]
Remove(f, k) == [x \in (DOMAIN f) \ {k} |-> f[x]]

\* { ...a, ...b }
Spread(a, b) ==
    [x \in (DOMAIN a) \cup (DOMAIN b) |-> IF x \in DOMAIN b THEN b[x] ELSE a[x]]

\* splice(i, 2): one element too many is removed
SpliceTwo(arr, i) == SubSeq(arr, 1, i - 1) \o SubSeq(arr, i + 2, Len(arr))

\* array.splice(i, 1)
Splice(arr, i) == SubSeq(arr, 1, i - 1) \o SubSeq(arr, i + 1, Len(arr))

\* array.findIndex(...) over the positions that satisfy the predicate: the
\* first of them, 0 when there is none (the source's -1)
FirstIndex(hits) ==
    IF hits = {} THEN 0 ELSE CHOOSE i \in hits : \A j \in hits : i <= j

(***************************************************************************)
(* State.                                                                  *)
(***************************************************************************)
VARIABLES
    taskCompletionData,   \* window.taskCompletionData
    storedTaskData,       \* localStorage 'taskCompletionData'
    activePatients,       \* localStorage 'activePatients'
    archivedPatients,     \* localStorage 'archivedPatients'
    sheet,                \* the Active sheet the backend serves
    currentTab,           \* the variable currentTab
    cards,                \* the timeline cards in the page, in order
    archivedButtons,      \* number of restore/delete button pairs in the page
    timers,               \* pending setTimeout callbacks of 1000 ms, oldest first
    notification,         \* text of the last showNotification
    exception,            \* the last handler let an exception escape
    ops,                  \* user operations performed so far
    malformed,            \* keys of localStorage whose text is not valid JSON
    listedPatients        \* patients the dashboard / active view lists in the page

vars == << taskCompletionData, storedTaskData, activePatients, archivedPatients,
           sheet, currentTab, cards, archivedButtons, timers, notification,
           exception, ops, malformed, listedPatients >>

(***************************************************************************)
(* loadPatientTimelines.                                                   *)
(***************************************************************************)
\* the id of the card of row `patient` at 0-based position `index`
CardId(patient, index) ==
    IF patient.id # NoId THEN patient.id ELSE IndexedId(patient.name, index)

\* the id generateImprovedTimelineSteps puts into the onchange handlers
HandlerId(patient) ==
    IF patient.id # NoId THEN patient.id ELSE TimestampId(patient.name)

\* the data.forEach loop of loadPatientTimelines from row i on; acc holds the
\* in-memory map, the stored map and the cards rendered so far
RECURSIVE RenderRows(_, _, _)
RenderRows(data, i, acc) ==
    IF i > Len(data) THEN acc
    ELSE
      LET patientId == CardId(data[i], i - 1)
          oldPatientId == OldId(i - 1)
          migrate == oldPatientId \in DOMAIN acc.mem /\ patientId \notin DOMAIN acc.mem
          mem1 == IF migrate
                  THEN Remove(Put(acc.mem, patientId, acc.mem[oldPatientId]), oldPatientId)
                  ELSE acc.mem
          stored1 == IF migrate THEN mem1 ELSE acc.stored
          mem2 == IF patientId \notin DOMAIN mem1
                  THEN Put(mem1, patientId, initializePatientTasks)
                  ELSE mem1
          card == [id |-> patientId,
                   handlerId |-> HandlerId(data[i]),
                   archiveButton |-> (calculateProgress(mem2, patientId) = 100)]
      IN  RenderRows(data, i + 1,
                     [mem |-> mem2, stored |-> stored1, cards |-> Append(acc.cards, card)])

\* loadPatientTimelines; ok = the fetch of /api/read-active succeeded
LoadPatientTimelines(ok) ==
    IF ok /\ Len(sheet) > 0
    THEN LET merged == IF "taskCompletionData" \in malformed
                       THEN taskCompletionData   \* JSON.parse throws, caught
                       ELSE Spread(taskCompletionData, storedTaskData)
             done == RenderRows(sheet, 1,
                        [mem |-> merged, stored |-> storedTaskData, cards |-> <<>>])
         IN  /\ taskCompletionData' = done.mem
             /\ storedTaskData' = done.stored
             /\ cards' = done.cards
             /\ archivedButtons' = 0
             /\ listedPatients' = <<>>
    ELSE \* showError replaces the content of the page
         /\ cards' = <<>>
         /\ archivedButtons' = 0
         /\ listedPatients' = <<>>
         /\ UNCHANGED << taskCompletionData, storedTaskData >>

\* loadArchivedPatients: one restore and one delete button per archived record
LoadArchivedPatients(archived) ==
    /\ cards' = <<>>
    /\ archivedButtons' = Len(archived)
    /\ listedPatients' = <<>>

\* rank of a character of the model's alphabet in the order of localeCompare
CharRank(c) ==
    CASE c = " " -> 0 [] c = "-" -> 1 [] c = "a" -> 2 [] c = "b" -> 3
      [] c = "d" -> 4 [] c = "x" -> 5 [] OTHER -> 6

\* name.split(' ')[0]
RECURSIVE FirstWord(_)
FirstWord(name) ==
    IF name = <<>> \/ Head(name) = " " THEN <<>>
    ELSE <<Head(name)>> \o FirstWord(Tail(name))

\* a.localeCompare(b) < 0
RECURSIVE ComesBefore(_, _)
ComesBefore(a, b) ==
    IF b = <<>> THEN FALSE
    ELSE IF a = <<>> THEN TRUE
    ELSE IF CharRank(Head(a)) # CharRank(Head(b))
         THEN CharRank(Head(a)) < CharRank(Head(b))
         ELSE ComesBefore(Tail(a), Tail(b))

\* the sort key of a patient: the first word of the name, in lower case
SortKey(p) == ToLowerCase(FirstWord(p.name))

\* sorted with p put behind the last element that does not come after it
RECURSIVE InsertSorted(_, _)
InsertSorted(sorted, p) ==
    IF sorted = <<>> THEN <<p>>
    ELSE IF ComesBefore(SortKey(p), SortKey(Head(sorted)))
         THEN <<p>> \o sorted
         ELSE <<Head(sorted)>> \o InsertSorted(Tail(sorted), p)

\* localPatients.sort(...) by first name; the sort is stable
RECURSIVE SortByFirstName(_)
SortByFirstName(patients) ==
    IF patients = <<>> THEN <<>>
    ELSE InsertSorted(SortByFirstName(SubSeq(patients, 1, Len(patients) - 1)),
                      patients[Len(patients)])

\* 'PAT-' + Date.now() + '-' + Math.random()...: an id given for this display
\* to the server row at position index
GeneratedId(index) == [n |-> index, name |-> <<>>, kind |-> "PAT-generated"]

\* the names of a list of patients
NamesOf(patients) == { patients[i].name : i \in 1..Len(patients) }

\* the rows of extra from position i on whose name is not in names, each
\* with an id
RECURSIVE RowsNotNamed(_, _, _)
RowsNotNamed(extra, i, names) ==
    IF i > Len(extra) THEN <<>>
    ELSE IF extra[i].name \in names
         THEN RowsNotNamed(extra, i + 1, names)
         ELSE << [extra[i] EXCEPT !.id = IF @ # NoId THEN @ ELSE GeneratedId(i)] >>
              \o RowsNotNamed(extra, i + 1, names)

\* the rows of extra whose name is not in names, as they are
RECURSIVE RecordsNotNamed(_, _, _)
RecordsNotNamed(extra, i, names) ==
    IF i > Len(extra) THEN <<>>
    ELSE IF extra[i].name \in names
         THEN RecordsNotNamed(extra, i + 1, names)
         ELSE << extra[i] >> \o RecordsNotNamed(extra, i + 1, names)

\* loadActivePatients on the stored list localPatients; ok = the fetch of
\* /api/read-active succeeded. Every stored record has an id and no old
\* index-based key exists, so nothing is written back. When the stored text
\* is not valid JSON, JSON.parse throws in the try block and again in the
\* catch block: the page keeps the spinner of showLoading
LoadActivePatients(localPatients, ok) ==
    /\ cards' = <<>>
    /\ archivedButtons' = 0
    /\ listedPatients' =
          IF "activePatients" \in malformed THEN <<>>
          ELSE SortByFirstName(
                  IF ok
                  THEN localPatients \o RowsNotNamed(sheet, 1, NamesOf(localPatients))
                  ELSE localPatients)

\* loadDashboard; a failed fetch, an empty answer and a stored list that is
\* not valid JSON all end in showError
LoadDashboard(localPatients, ok) ==
    /\ cards' = <<>>
    /\ archivedButtons' = 0
    /\ listedPatients' =
          IF ok /\ Len(sheet) > 0 /\ "activePatients" \notin malformed
          THEN sheet \o RecordsNotNamed(localPatients, 1, NamesOf(sheet))
          ELSE <<>>

Tabs == {"timelines", "archived", "active-data"}

\* switchTab(tabName)
SwitchTab(tabName, ok) ==
    /\ currentTab' = tabName
    /\ CASE tabName = "timelines" -> LoadPatientTimelines(ok)
         [] tabName = "archived" ->
              /\ LoadArchivedPatients(archivedPatients)
              /\ UNCHANGED << taskCompletionData, storedTaskData >>
         [] tabName = "dashboard" ->
              /\ LoadDashboard(activePatients, ok)
              /\ UNCHANGED << taskCompletionData, storedTaskData >>
         [] OTHER ->
              /\ LoadActivePatients(activePatients, ok)
              /\ UNCHANGED << taskCompletionData, storedTaskData >>
    /\ exception' = (tabName = "active-data" /\ "activePatients" \in malformed)
    /\ UNCHANGED << activePatients, archivedPatients, sheet, malformed,
                    notification, ops >>

(***************************************************************************)
(* Mutation handlers of the timeline.                                      *)
(***************************************************************************)
\* showNotification(`... ${arg} ...`)
Notice(text, arg) == [text |-> text, arg |-> arg]

\* a pending setTimeout(() => fn(id), 1000)
Timer(fn, id) == [id |-> id, fn |-> fn]

\* document.querySelector(`#${patientId} ...`) finds the card
CardInPage(patientId) == \E i \in 1..Len(cards) : cards[i].id = patientId

\* what toggleSubtask, toggleSubSubtask and updateSubSubtaskInput share once
\* the tree of patientId has become newTasks: the status and progress display
\* of the card, the save, the auto-archive timeout
FinishMutation(patientId, newTasks) ==
    /\ taskCompletionData' = [taskCompletionData EXCEPT ![patientId] = newTasks]
    /\ IF CardInPage(patientId)
       THEN /\ storedTaskData' = taskCompletionData'
            /\ timers' = IF ProgressOf(newTasks) = 100
                         THEN Append(timers, Timer("autoArchivePatient", patientId))
                         ELSE timers
            /\ exception' = FALSE
       ELSE \* taskItem is null: TypeError before the save
            /\ exception' = TRUE
            /\ UNCHANGED << storedTaskData, timers >>
    /\ ops' = ops + 1
    /\ UNCHANGED << activePatients, archivedPatients, sheet, malformed,
                    currentTab, cards, listedPatients, archivedButtons,
                    notification >>

\* window.taskCompletionData[patientId] is undefined: TypeError on the first line
MissingTree ==
    /\ exception' = TRUE
    /\ ops' = ops + 1
    /\ UNCHANGED << taskCompletionData, storedTaskData, activePatients,
                    archivedPatients, sheet, malformed, currentTab, cards,
                    listedPatients, archivedButtons, timers, notification >>

\* toggleSubtask(patientId, taskIndex, subtaskIndex)
toggleSubtask(patientId, taskIndex, subtaskIndex) ==
    /\ ops < MaxOps
    /\ IF patientId \notin DOMAIN taskCompletionData
       THEN MissingTree
       ELSE FinishMutation(patientId,
                FlipSubtask(taskCompletionData[patientId], taskIndex, subtaskIndex))

\* toggleSubSubtask(patientId, taskIndex, subtaskIndex, subSubtaskIndex)
toggleSubSubtask(patientId, taskIndex, subtaskIndex, subSubtaskIndex) ==
    /\ ops < MaxOps
    /\ IF patientId \notin DOMAIN taskCompletionData
       THEN MissingTree
       ELSE FinishMutation(patientId,
                FlipSubSubtask(taskCompletionData[patientId],
                               taskIndex, subtaskIndex, subSubtaskIndex))

\* updateSubSubtaskInput(patientId, taskIndex, subtaskIndex, subSubtaskIndex, value)
updateSubSubtaskInput(patientId, taskIndex, subtaskIndex, subSubtaskIndex, value) ==
    /\ ops < MaxOps
    /\ IF patientId \notin DOMAIN taskCompletionData
       THEN MissingTree
       ELSE FinishMutation(patientId,
                SetSubSubtaskInput(taskCompletionData[patientId],
                                   taskIndex, subtaskIndex, subSubtaskIndex, value))

\* the record's name matches the argument of markAllTasksComplete
NameMatches(p, patientName) ==
    Includes(ToLowerCase(p.name), ToLowerCase(patientName))

\* patients[i].id || `patient-...-${Date.now()}`
IdOrTimestamp(p) == IF p.id # NoId THEN p.id ELSE TimestampId(p.name)

\* markAllTasksComplete(patientName)
markAllTasksComplete(patientName) ==
    /\ ops < MaxOps
    /\ ops' = ops + 1
    /\ exception' = FALSE
    /\ LET patientIndex ==
              FirstIndex({i \in 1..Len(activePatients) :
                             NameMatches(activePatients[i], patientName)})
       IN  IF patientIndex = 0
           THEN /\ notification' = Notice("not found in active patients", patientName)
                /\ UNCHANGED << taskCompletionData, storedTaskData, timers >>
           ELSE LET patientId == IdOrTimestamp(activePatients[patientIndex])
                    tasks == IF patientId \in DOMAIN taskCompletionData
                             THEN taskCompletionData[patientId]
                             ELSE initializePatientTasks
                IN  /\ taskCompletionData' =
                          Put(taskCompletionData, patientId, MarkAll(tasks))
                    /\ storedTaskData' = taskCompletionData'
                    /\ notification' = Notice("All tasks marked as complete for", patientName)
                    /\ timers' = Append(timers, Timer("loadPatientTimelines", NoId))
    /\ UNCHANGED << activePatients, archivedPatients, sheet, malformed,
                    currentTab, cards, listedPatients, archivedButtons >>

(***************************************************************************)
(* Archive, restore, delete.                                               *)
(***************************************************************************)
\* the refresh at the end of autoArchivePatient
RefreshCurrentView(ok) ==
    CASE currentTab = "timelines" -> LoadPatientTimelines(ok)
      [] currentTab = "active-data" ->
           /\ LoadActivePatients(activePatients', ok)
           /\ UNCHANGED << taskCompletionData, storedTaskData >>
      [] OTHER ->
           UNCHANGED << taskCompletionData, storedTaskData, cards,
                        listedPatients, archivedButtons >>

\* autoArchivePatient pushing the record to the archive without the splice
autoArchivePatientNoSplice(patientId, ok) ==
    LET patientIndex == FirstIndex({i \in 1..Len(activePatients) : activePatients[i].id = patientId})
    IN  IF patientIndex = 0
        THEN UNCHANGED << activePatients, archivedPatients, taskCompletionData,
                          storedTaskData, cards, listedPatients,
                          archivedButtons >>
        ELSE LET patient == [activePatients[patientIndex] EXCEPT
                                !.archivedBy = "Auto-Archive (100% Complete)",
                                !.archivedReason = "All tasks completed"]
             IN  /\ archivedPatients' = Append(archivedPatients, patient)
                 /\ activePatients' = activePatients
                 /\ RefreshCurrentView(ok)

\* autoArchivePatient(patientId); ok = the fetch of the refreshed timeline succeeded
autoArchivePatient(patientId, ok) ==
    LET patientIndex == FirstIndex({i \in 1..Len(activePatients) : activePatients[i].id = patientId})
    IN  IF patientIndex = 0
        THEN UNCHANGED << activePatients, archivedPatients, taskCompletionData,
                          storedTaskData, cards, listedPatients,
                          archivedButtons >>
        ELSE LET patient == [activePatients[patientIndex] EXCEPT
                                !.archivedBy = "Auto-Archive (100% Complete)",
                                !.archivedReason = "All tasks completed"]
             IN  /\ archivedPatients' = Append(archivedPatients, patient)
                 /\ activePatients' = Splice(activePatients, patientIndex)
                 /\ RefreshCurrentView(ok)

\* archivePatient(patientIndex)
archivePatient(patientIndex) ==
    IF patientIndex >= 1 /\ patientIndex <= Len(activePatients)
    THEN LET patient == [activePatients[patientIndex] EXCEPT !.archivedBy = "System"]
             patients == Splice(activePatients, patientIndex)
         IN  /\ archivedPatients' = Append(archivedPatients, patient)
             /\ activePatients' = patients
             /\ IF patientIndex <= Len(patients)
                THEN \* patients[patientIndex] is now the record after the removed one
                     /\ taskCompletionData' =
                           Remove(taskCompletionData, IdOrTimestamp(patients[patientIndex]))
                     /\ notification' = Notice("archived successfully", patient.name)
                     /\ timers' = Append(timers, Timer("loadPatientTimelines", NoId))
                ELSE \* patients[patientIndex] is undefined: TypeError, caught
                     /\ notification' = Notice("Failed to archive patient", <<>>)
                     /\ UNCHANGED << taskCompletionData, timers >>
    ELSE /\ notification' = Notice("Invalid patient index", <<>>)
         /\ UNCHANGED << activePatients, archivedPatients, taskCompletionData, timers >>

\* restorePatient(archivedIndex)
restorePatient(archivedIndex) ==
    IF archivedIndex >= 1 /\ archivedIndex <= Len(archivedPatients)
    THEN LET patient == [archivedPatients[archivedIndex] EXCEPT !.archivedBy = ""]
         IN  /\ activePatients' = Append(activePatients, patient)
             /\ archivedPatients' = Splice(archivedPatients, archivedIndex)
             /\ notification' = Notice("restored to active patients", patient.name)
             /\ timers' = Append(timers, Timer("loadArchivedPatients", NoId))
    ELSE /\ notification' = Notice("Invalid patient index", <<>>)
         /\ UNCHANGED << activePatients, archivedPatients, timers >>

\* deleteArchivedPatient(archivedIndex); confirmed = the answer to confirm(...)
deleteArchivedPatient(archivedIndex, confirmed) ==
    IF ~confirmed
    THEN UNCHANGED << archivedPatients, notification, timers >>
    ELSE IF archivedIndex >= 1 /\ archivedIndex <= Len(archivedPatients)
         THEN /\ archivedPatients' = Splice(archivedPatients, archivedIndex)
              /\ notification' =
                    Notice("permanently deleted", archivedPatients[archivedIndex].name)
              /\ timers' = Append(timers, Timer("loadArchivedPatients", NoId))
         ELSE /\ notification' = Notice("Invalid patient index", <<>>)
              /\ UNCHANGED << archivedPatients, timers >>

(***************************************************************************)
(* Events.                                                                 *)
(***************************************************************************)
\* checkboxes and fields the user works on
SubtaskClicks == { <<1, 2>>, <<2, 1>>, <<2, 2>> }
SubSubtaskClicks == { <<1, 1, 1>>, <<2, 2, 1>>, <<2, 2, 2>> }
InputFields == { <<7, 1, 1>> }

\* texts of at most MaxValueLen characters
Values == UNION { [1..n -> {" ", "x"}] : n \in 0..MaxValueLen }

\* names passed to markAllTasksComplete
NameArgs == { <<"a", "d">>, <<"a">>, <<"z">> }

\* ids a handler is called with: those of the handlers in the page, and the
\* one typed into the browser console
ConsoleIds == { PAT(1) }
CallIds == { cards[i].handlerId : i \in 1..Len(cards) } \cup ConsoleIds

Init ==
    /\ sheet \in SheetChoices
    /\ activePatients \in ActiveChoices
    /\ archivedPatients = <<>>
    /\ storedTaskData \in StoredChoices
    /\ taskCompletionData = storedTaskData
    /\ currentTab = "dashboard"
    /\ cards = <<>>
    /\ archivedButtons = 0
    /\ timers = <<>>
    /\ notification = Notice("", <<>>)
    /\ exception = FALSE
    /\ ops = 0
    /\ malformed = {}
    /\ listedPatients = <<>>

OpenTab ==
    \E tabName \in Tabs, ok \in BOOLEAN :
        /\ SwitchTab(tabName, ok)
        /\ UNCHANGED timers

ClickSubtask ==
    \E patientId \in CallIds, c \in SubtaskClicks :
        toggleSubtask(patientId, c[1], c[2])

ClickSubSubtask ==
    \E patientId \in CallIds, c \in SubSubtaskClicks :
        toggleSubSubtask(patientId, c[1], c[2], c[3])

TypeInput ==
    \E patientId \in CallIds, c \in InputFields, value \in Values :
        updateSubSubtaskInput(patientId, c[1], c[2], c[3], value)

RunMarkAll ==
    \E patientName \in NameArgs : markAllTasksComplete(patientName)

ClickArchive ==
    \E i \in 1..Len(cards) :
        /\ cards[i].archiveButton
        /\ ops < MaxOps
        /\ ops' = ops + 1
        /\ archivePatient(i)
        /\ exception' = FALSE
        /\ UNCHANGED << storedTaskData, sheet, malformed, currentTab, cards,
                        listedPatients, archivedButtons >>

ClickRestore ==
    \E i \in 1..archivedButtons :
        /\ ops < MaxOps
        /\ ops' = ops + 1
        /\ restorePatient(i)
        /\ exception' = FALSE
        /\ UNCHANGED << taskCompletionData, storedTaskData, sheet, malformed,
                        currentTab, cards, listedPatients, archivedButtons >>

ClickDelete ==
    \E i \in 1..archivedButtons, confirmed \in BOOLEAN :
        /\ ops < MaxOps
        /\ ops' = ops + 1
        /\ deleteArchivedPatient(i, confirmed)
        /\ exception' = FALSE
        /\ UNCHANGED << taskCompletionData, storedTaskData, activePatients,
                        sheet, malformed, currentTab, cards, listedPatients,
                        archivedButtons >>

FireAutoArchive ==
    /\ timers # <<>>
    /\ Head(timers).fn = "autoArchivePatient"
    /\ timers' = Tail(timers)
    /\ \E ok \in BOOLEAN : autoArchivePatient(Head(timers).id, ok)
    /\ exception' = FALSE
    /\ UNCHANGED << sheet, malformed, currentTab, notification, ops >>

FireLoadTimelines ==
    /\ timers # <<>>
    /\ Head(timers).fn = "loadPatientTimelines"
    /\ timers' = Tail(timers)
    /\ \E ok \in BOOLEAN : LoadPatientTimelines(ok)
    /\ exception' = FALSE
    /\ UNCHANGED << activePatients, archivedPatients, sheet, malformed,
                    currentTab, notification, ops >>

FireLoadArchived ==
    /\ timers # <<>>
    /\ Head(timers).fn = "loadArchivedPatients"
    /\ timers' = Tail(timers)
    /\ LoadArchivedPatients(archivedPatients)
    /\ exception' = FALSE
    /\ UNCHANGED << taskCompletionData, storedTaskData, activePatients,
                    archivedPatients, sheet, malformed, currentTab,
                    notification, ops >>

Next ==
    \/ OpenTab
    \/ ClickSubtask
    \/ ClickSubSubtask
    \/ TypeInput
    \/ RunMarkAll
    \/ ClickArchive
    \/ ClickRestore
    \/ ClickDelete
    \/ FireAutoArchive
    \/ FireLoadTimelines
    \/ FireLoadArchived

Spec == Init /\ [][Next]_vars

\* setTimeout callbacks are always run once their delay has passed
FairSpec ==
    /\ Spec
    /\ WF_vars(FireAutoArchive)
    /\ WF_vars(FireLoadTimelines)
    /\ WF_vars(FireLoadArchived)

(***************************************************************************)
(* A second specification for the progress calculation: the timeline of    *)
(* one patient is open on a tree in which the first tasks are done, one    *)
(* task has any combination of flags, and the user performs one more       *)
(* operation on any checkbox or field of the tree.                         *)
(***************************************************************************)
\* the flag combinations of one sub-subtask; a free-text field is left
\* incomplete only with an empty text
LeafVariants(leaf) ==
    { [leaf EXCEPT !.complete = TRUE],
      [leaf EXCEPT !.complete = FALSE,
                   !.value = IF leaf.type = "input" THEN <<>> ELSE leaf.value] }

\* the sequences that take their i-th element from choices[i]
Products(choices) ==
    { f \in [DOMAIN choices -> UNION { choices[i] : i \in DOMAIN choices }] :
        \A i \in DOMAIN choices : f[i] \in choices[i] }

SubtaskVariants(subtask) ==
    { [subtask EXCEPT !.complete = c, !.subSubtasks = leaves] :
        c \in BOOLEAN,
        leaves \in Products([l \in 1..Len(subtask.subSubtasks) |->
                                LeafVariants(subtask.subSubtasks[l])]) }

TaskVariants(task) ==
    { [task EXCEPT !.subtasks = subs] :
        subs \in Products([i \in 1..Len(task.subtasks) |->
                              SubtaskVariants(task.subtasks[i])]) }

\* the first k tasks as in CompleteTree, the others as in the template
PrefixDone(k) ==
    [t \in 1..Len(initializePatientTasks) |->
        IF t <= k THEN CompleteTree[t] ELSE initializePatientTasks[t]]

CalcTrees ==
    UNION { { [PrefixDone(k) EXCEPT ![t] = v] :
                k \in 0..Len(initializePatientTasks),
                v \in TaskVariants(initializePatientTasks[t])
                        \cup TaskVariants(CompleteTree[t]) } :
            t \in 1..Len(initializePatientTasks) }

CalcInit ==
    /\ sheet = << Patient(Adam, PAT(1)) >>
    /\ activePatients = << Patient(Adam, PAT(1)) >>
    /\ archivedPatients = <<>>
    /\ \E tree \in CalcTrees :
          /\ taskCompletionData = [k \in {PAT(1)} |-> tree]
          /\ cards = << [id |-> PAT(1), handlerId |-> PAT(1),
                         archiveButton |-> (ProgressOf(tree) = 100)] >>
    /\ storedTaskData = taskCompletionData
    /\ currentTab = "timelines"
    /\ archivedButtons = 0
    /\ timers = <<>>
    /\ notification = Notice("", <<>>)
    /\ exception = FALSE
    /\ ops = MaxOps - 1
    /\ malformed = {}
    /\ listedPatients = <<>>

\* positions of the subtasks, of the checkbox sub-subtasks and of the
\* free-text fields generateSubtasks renders
AllSubtasks ==
    { <<t, s>> \in (1..11) \X (1..3) : s <= Len(initializePatientTasks[t].subtasks) }

AllSubSubtasks ==
    { <<t, s, l>> \in (1..11) \X (1..3) \X (1..2) :
        /\ s <= Len(initializePatientTasks[t].subtasks)
        /\ l <= Len(initializePatientTasks[t].subtasks[s].subSubtasks) }

IsInputField(c) ==
    /\ initializePatientTasks[c[1]].id # "invoice"
    /\ initializePatientTasks[c[1]].subtasks[c[2]].subSubtasks[c[3]].type = "input"

AnyCheckbox ==
    \E c \in AllSubtasks : toggleSubtask(PAT(1), c[1], c[2])

AnySubCheckbox ==
    \E c \in AllSubSubtasks :
        /\ ~IsInputField(c)
        /\ toggleSubSubtask(PAT(1), c[1], c[2], c[3])

AnyField ==
    \E c \in AllSubSubtasks, value \in Values :
        /\ IsInputField(c)
        /\ updateSubSubtaskInput(PAT(1), c[1], c[2], c[3], value)

CalcNext == AnyCheckbox \/ AnySubCheckbox \/ AnyField

CalcSpec == CalcInit /\ [][CalcNext]_vars

(***************************************************************************)
(* A third specification for the start of the page: local storage may     *)
(* hold texts that are not valid JSON and task trees under the old         *)
(* index-based keys; initMainApp loads the persisted data, the dashboard   *)
(* opens, and the user switches between the views and reloads the page.    *)
(***************************************************************************)
MalformedKeys == {"activePatients", "taskCompletionData", "workflowData"}

\* the forEach loop of migrateTaskCompletionData from patient i on
RECURSIVE MigrateFrom(_, _, _)
MigrateFrom(patients, i, mem) ==
    IF i > Len(patients) THEN mem
    ELSE LET oldPatientId == OldId(i - 1)
             newPatientId == patients[i].id
         IN  MigrateFrom(patients, i + 1,
                IF /\ oldPatientId \in DOMAIN mem
                   /\ newPatientId # NoId
                   /\ newPatientId \notin DOMAIN mem
                THEN Remove(Put(mem, newPatientId, mem[oldPatientId]), oldPatientId)
                ELSE mem)

\* migrateTaskCompletionData: its own try/catch swallows the SyntaxError of
\* a stored active list that is not valid JSON
migrateTaskCompletionData(mem) ==
    IF "activePatients" \in malformed THEN mem
    ELSE MigrateFrom(activePatients, 1, mem)

\* loadPersistedData
loadPersistedData ==
    IF "taskCompletionData" \in malformed
    THEN \* JSON.parse throws: the catch block sets the empty object
         /\ taskCompletionData' = EmptyMap
         /\ UNCHANGED storedTaskData
    ELSE LET migrated == migrateTaskCompletionData(storedTaskData)
         IN  /\ storedTaskData' = migrated
             /\ taskCompletionData' =
                   IF "workflowData" \in malformed THEN EmptyMap ELSE migrated

\* contents of localStorage 'taskCompletionData' a page may start from
LoadStoredChoices == StoredChoices \cup { [k \in {OldId(0)} |-> NearlyDone] }

LoadInit ==
    /\ sheet \in SheetChoices
    /\ malformed \in SUBSET MalformedKeys
    /\ activePatients \in ActiveChoices
    /\ "activePatients" \in malformed => activePatients = <<>>
    /\ archivedPatients = <<>>
    /\ storedTaskData \in LoadStoredChoices
    /\ "taskCompletionData" \in malformed => storedTaskData = EmptyMap
    /\ taskCompletionData = EmptyMap
    /\ currentTab = "dashboard"
    /\ cards = <<>>
    /\ archivedButtons = 0
    /\ timers = << Timer("initMainApp", NoId) >>
    /\ notification = Notice("", <<>>)
    /\ exception = FALSE
    /\ ops = 0
    /\ listedPatients = <<>>

\* initMainApp, run once the page is loaded and the user authenticated
FireInitMainApp ==
    /\ timers # <<>>
    /\ Head(timers).fn = "initMainApp"
    /\ loadPersistedData
    /\ timers' = << Timer("switchTab", NoId) >>
    /\ exception' = FALSE
    /\ UNCHANGED << activePatients, archivedPatients, sheet, malformed,
                    currentTab, cards, listedPatients, archivedButtons,
                    notification, ops >>

\* the setTimeout of initMainApp: switchTab('dashboard')
FireSwitchTab ==
    /\ timers # <<>>
    /\ Head(timers).fn = "switchTab"
    /\ timers' = Tail(timers)
    /\ \E ok \in BOOLEAN : SwitchTab("dashboard", ok)

\* a click on one of the four views of the sidebar
OpenAnyTab ==
    /\ timers = <<>>
    /\ \E tabName \in Tabs \cup {"dashboard"}, ok \in BOOLEAN :
          SwitchTab(tabName, ok)
    /\ UNCHANGED timers

\* the user reloads the page: the script starts again
ReloadPage ==
    /\ timers = <<>>
    /\ timers' = << Timer("initMainApp", NoId) >>
    /\ taskCompletionData' = EmptyMap
    /\ currentTab' = "dashboard"
    /\ cards' = <<>>
    /\ archivedButtons' = 0
    /\ listedPatients' = <<>>
    /\ notification' = Notice("", <<>>)
    /\ exception' = FALSE
    /\ UNCHANGED << storedTaskData, activePatients, archivedPatients, sheet,
                    malformed, ops >>

LoadNext == FireInitMainApp \/ FireSwitchTab \/ OpenAnyTab \/ ReloadPage

LoadSpec == LoadInit /\ [][LoadNext]_vars

(***************************************************************************)
(* Properties.                                                             *)
(***************************************************************************)
\* ids of the records of the model
PatientIds == { PAT(1), PAT(2) }

InActive(id) == \E i \in 1..Len(activePatients) : activePatients[i].id = id
InArchived(id) == \E i \in 1..Len(archivedPatients) : archivedPatients[i].id = id

\* a timeout set by a mutation that left the progress of id at 100
PendingAutoArchive(id) ==
    \E i \in 1..Len(timers) : timers[i] = Timer("autoArchivePatient", id)

\* C1: whenever a mutation handler has left the progress of a patient of the
\* timeline at 100 (its auto-archive timeout is pending), the record of that
\* patient is eventually in the archived and not in the active collection.
C1_EventuallyArchived ==
    \A id \in PatientIds :
        PendingAutoArchive(id) ~> (InArchived(id) /\ ~InActive(id))

\* a step in which autoArchivePatient appends a record to the archived collection
AutoArchiveStep ==
    /\ Len(archivedPatients') = Len(archivedPatients) + 1
    /\ Len(activePatients') = Len(activePatients) - 1
    /\ archivedPatients'[Len(archivedPatients')].archivedBy = "Auto-Archive (100% Complete)"

\* the id of the record the step has appended to the archived collection
MovedId == archivedPatients'[Len(archivedPatients')].id

\* C2: autoArchivePatient moves a record only when the progress of that
\* patient is 100 at the moment of the move.
C2_ArchivedOnlyAt100 ==
    [][AutoArchiveStep => calculateProgress(taskCompletionData, MovedId) = 100]_vars

\* C3: once autoArchivePatient has moved a record, the task-completion map has
\* no entry for its id, neither in memory nor in local storage.
C3_TreeDeletedOnAutoArchive ==
    [][AutoArchiveStep =>
         /\ MovedId \notin DOMAIN taskCompletionData'
         /\ MovedId \notin DOMAIN storedTaskData']_vars

\* a step in which restorePatient moves a record back to the active collection
RestoreStep ==
    /\ Len(activePatients') = Len(activePatients) + 1
    /\ Len(archivedPatients') = Len(archivedPatients) - 1

\* the progress loadPatientTimelines shows for id when it runs on the given
\* in-memory and stored maps
ProgressOnView(mem, stored, id) ==
    LET merged == Spread(mem, stored)
    IN  IF id \in DOMAIN merged THEN ProgressOf(merged[id])
        ELSE ProgressOf(initializePatientTasks)

\* C4: restorePatient moves the record back to the active collection, and the
\* timeline opened next shows the restored patient with a fresh tree, at 0.
C4_RestoredStartsAtZero ==
    [][RestoreStep =>
         LET restored == activePatients'[Len(activePatients')]
         IN  ProgressOnView(taskCompletionData', storedTaskData', restored.id) = 0]_vars

\* markAllTasksComplete has just completed the tree of the active patient id
MarkedComplete(id) ==
    /\ notification.text = "All tasks marked as complete for"
    /\ LET patientIndex == FirstIndex({i \in 1..Len(activePatients) :
                              NameMatches(activePatients[i], notification.arg)})
       IN  /\ patientIndex # 0
           /\ activePatients[patientIndex].id = id
    /\ calculateProgress(taskCompletionData, id) = 100

\* C5: a patient markAllTasksComplete has brought to 100 is eventually moved
\* to the archived collection.
C5_MarkAllLeadsToArchive ==
    \A id \in PatientIds : MarkedComplete(id) ~> InArchived(id)

\* number of records with the given name and id in the two collections
Occurrences(active, archived, name, id) ==
    Cardinality({i \in 1..Len(active) : active[i].name = name /\ active[i].id = id})
    + Cardinality({i \in 1..Len(archived) :
                      archived[i].name = name /\ archived[i].id = id})

\* a step in which deleteArchivedPatient, confirmed, removes one archived record
DeleteStep ==
    /\ activePatients' = activePatients
    /\ notification'.text = "permanently deleted"
    /\ \E i \in 1..Len(archivedPatients) :
          archivedPatients' =
              [j \in 1..(Len(archivedPatients) - 1) |->
                  IF j < i THEN archivedPatients[j] ELSE archivedPatients[j + 1]]

\* C6: no step but a confirmed deleteArchivedPatient changes how often a
\* record occurs in the active and archived collections together, and every
\* record is in the two collections at most once.
C6_NoRecordLostOrDuplicated ==
    [][ /\ DeleteStep \/
           \A name \in {Adam, Beth}, id \in PatientIds :
              Occurrences(activePatients', archivedPatients', name, id)
                 = Occurrences(activePatients, archivedPatients, name, id)
        /\ \A name \in {Adam, Beth}, id \in PatientIds :
              Occurrences(activePatients', archivedPatients', name, id) <= 1 ]_vars

\* a record that autoArchivePatient had moved to the archive is back in the
\* active collection after restorePatient
C6_Witness ==
    \E i \in 1..Len(activePatients) :
        /\ activePatients[i].archivedReason = "All tasks completed"
        /\ activePatients[i].archivedBy = ""

\* the flags the invoice rule reads, by their position in the template
InvoiceTask(tasks) == tasks[2]
Sent(tasks) == InvoiceTask(tasks).subtasks[1].complete
PaidQB(tasks) == InvoiceTask(tasks).subtasks[2].subSubtasks[1].complete
PaidCheck(tasks) == InvoiceTask(tasks).subtasks[2].subSubtasks[2].complete

\* C7: the invoice task counts 2 total items and 2, 1 or 0 completed items
\* according to sent, paidQB and paidCheck alone.
C7_InvoiceContribution ==
    \A id \in DOMAIN taskCompletionData :
        LET tasks == taskCompletionData[id]
        IN  /\ InvoiceTask(tasks).id = "invoice"
            /\ TaskTotal(InvoiceTask(tasks)) = 2
            /\ TaskCompleted(InvoiceTask(tasks)) =
                  (IF Sent(tasks) /\ (PaidQB(tasks) \/ PaidCheck(tasks)) THEN 2
                   ELSE IF Sent(tasks) THEN 1 ELSE 0)

\* sent and paid by check only, with the stored flag of 'Payment Received' unset
C7_Witness ==
    \E id \in DOMAIN taskCompletionData :
        LET tasks == taskCompletionData[id]
        IN  /\ Sent(tasks) /\ ~PaidQB(tasks) /\ PaidCheck(tasks)
            /\ ~InvoiceTask(tasks).subtasks[2].complete
            /\ TaskCompleted(InvoiceTask(tasks)) = 2

\* a subtask with sub-subtasks is effectively complete iff all of them are,
\* a subtask without iff its own flag is set
EffectiveComplete(subtask) ==
    IF Len(subtask.subSubtasks) > 0
    THEN \A l \in 1..Len(subtask.subSubtasks) : subtask.subSubtasks[l].complete
    ELSE subtask.complete

\* C8: for every task but invoice the completed items counted are the
\* effectively complete subtasks.
C8_CountsEffectiveComplete ==
    \A id \in DOMAIN taskCompletionData :
        \A t \in 1..Len(taskCompletionData[id]) :
            LET task == taskCompletionData[id][t]
            IN  task.id # "invoice" =>
                   TaskCompleted(task) =
                      Cardinality({s \in 1..Len(task.subtasks) :
                                      EffectiveComplete(task.subtasks[s])})

\* a subtask other than invoice whose stored flag disagrees with its sub-subtasks
C8_Witness ==
    \E id \in DOMAIN taskCompletionData :
        \E t \in 1..Len(taskCompletionData[id]) :
            LET task == taskCompletionData[id][t]
            IN  /\ task.id # "invoice"
                /\ \E s \in 1..Len(task.subtasks) :
                      /\ Len(task.subtasks[s].subSubtasks) > 0
                      /\ task.subtasks[s].complete
                      /\ ~EffectiveComplete(task.subtasks[s])

\* C9: the progress is the integer of 0..100 nearest to 100 * completed / total
\* (halves rounded up), completed never exceeds total, and the result is 0 for
\* a patient without a tree and for an empty task list.
C9_ProgressIsRoundedPercentage ==
    /\ \A id \in DOMAIN taskCompletionData :
          LET c == CompletedItems(taskCompletionData[id])
              t == TotalItems(taskCompletionData[id])
              p == calculateProgress(taskCompletionData, id)
          IN  /\ p \in 0..100
              /\ c <= t
              /\ t > 0
              /\ 2 * (p * t - 100 * c) <= t
              /\ 2 * (100 * c - p * t) < t
    /\ \A id \in PatientIds \ DOMAIN taskCompletionData :
          calculateProgress(taskCompletionData, id) = 0
    /\ ProgressOf(<<>>) = 0

\* a tree whose percentage is rounded up: 22 of 23 items give 96
C9_Witness ==
    \E id \in DOMAIN taskCompletionData :
        /\ CompletedItems(taskCompletionData[id]) = 22
        /\ calculateProgress(taskCompletionData, id) = 96

\* every flag of a tree is false
AllFlagsFalse(tasks) ==
    \A t \in 1..Len(tasks) : \A s \in 1..Len(tasks[t].subtasks) :
        /\ ~tasks[t].subtasks[s].complete
        /\ \A l \in 1..Len(tasks[t].subtasks[s].subSubtasks) :
              ~tasks[t].subtasks[s].subSubtasks[l].complete

\* C10: the tree initializePatientTasks returns has the 11 tasks of the
\* template with every flag false, and a patient holding it has progress 0.
C10_FreshTreeIsZero ==
    /\ [t \in 1..Len(initializePatientTasks) |-> initializePatientTasks[t].id]
          = << "wr", "invoice", "records", "visit1", "visit2", "attending",
               "consulting", "rxnt", "pharmacy", "ingestion", "followup" >>
    /\ AllFlagsFalse(initializePatientTasks)
    /\ \A id \in DOMAIN taskCompletionData :
          taskCompletionData[id] = initializePatientTasks =>
             calculateProgress(taskCompletionData, id) = 0

\* loadPatientTimelines has given the patient of a card the tree of the template
C10_Witness ==
    \E i \in 1..Len(cards) :
        /\ cards[i].id \in DOMAIN taskCompletionData
        /\ taskCompletionData[cards[i].id] = initializePatientTasks

\* every subtask flag and every sub-subtask flag of the task is set
FullyComplete(task) ==
    \A s \in 1..Len(task.subtasks) :
        /\ task.subtasks[s].complete
        /\ \A l \in 1..Len(task.subtasks[s].subSubtasks) :
              task.subtasks[s].subSubtasks[l].complete

\* the tree of the example: in wr 'Written Request' and its sub-subtask are
\* complete and 'Payment Schedule Form' is not, the other 10 tasks are
\* fully complete
IsExampleTree(tasks) ==
    /\ Len(tasks) = 11
    /\ tasks[1].id = "wr"
    /\ tasks[1].subtasks[1].complete
    /\ tasks[1].subtasks[1].subSubtasks[1].complete
    /\ ~tasks[1].subtasks[2].complete
    /\ \A t \in 2..11 : FullyComplete(tasks[t])

\* C11 as stated: for the tree of the example calculateProgress returns
\* round(100 * (11+1) / T), T the counted items of the template.
C11_ExampleAsStated ==
    \A id \in DOMAIN taskCompletionData :
        IsExampleTree(taskCompletionData[id]) =>
           LET T == TotalItems(initializePatientTasks)
               p == calculateProgress(taskCompletionData, id)
           IN  /\ 2 * (p * T - 100 * (11 + 1)) <= T
               /\ 2 * (100 * (11 + 1) - p * T) < T

\* C11, amended: the other 10 tasks hold 21 of the T = 23 counted items, so
\* for the tree of the example calculateProgress returns
\* round(100 * (21+1) / 23) = 96.
C11_ExampleProgress ==
    /\ TotalItems(initializePatientTasks) = 23
    /\ \A id \in DOMAIN taskCompletionData :
          IsExampleTree(taskCompletionData[id]) =>
             /\ CompletedItems(taskCompletionData[id]) = 21 + 1
             /\ calculateProgress(taskCompletionData, id) = 96

\* the timeline shows a card for a patient holding the tree of the example
C11_Witness ==
    \E i \in 1..Len(cards) :
        /\ cards[i].id \in DOMAIN taskCompletionData
        /\ IsExampleTree(taskCompletionData[cards[i].id])
        /\ ~cards[i].archiveButton

\* the stored flag of every subtask with sub-subtasks is the AND of their flags
FlagsAgree(tasks) ==
    \A t \in 1..Len(tasks) : \A s \in 1..Len(tasks[t].subtasks) :
        LET subtask == tasks[t].subtasks[s]
        IN  Len(subtask.subSubtasks) > 0 =>
               (subtask.complete <=>
                   \A l \in 1..Len(subtask.subSubtasks) : subtask.subSubtasks[l].complete)

\* C12: in every reachable state every subtask that has sub-subtasks has its
\* stored complete flag equal to the AND of its sub-subtasks' flags.
C12_ParentFlagIsAndOfLeaves ==
    \A id \in DOMAIN taskCompletionData : FlagsAgree(taskCompletionData[id])

\* the text has a character that is not white space
NonBlank(value) == \E i \in 1..Len(value) : value[i] # " "

\* the sub-subtask at position c = <<task, subtask, sub-subtask>> of a tree
LeafAt(tasks, c) == tasks[c[1]].subtasks[c[2]].subSubtasks[c[3]]

\* C13: updateSubSubtaskInput stores the value and sets the leaf complete iff
\* the value has a non-blank character, whatever the leaf held before; the
\* same call again changes nothing in the tree, and the empty string after it
\* leaves the leaf incomplete.
C13_InputCompletionFollowsValue ==
    [][\A patientId \in DOMAIN taskCompletionData :
         \A c \in AllSubSubtasks, value \in Values :
            updateSubSubtaskInput(patientId, c[1], c[2], c[3], value) =>
               LET after == taskCompletionData'[patientId]
               IN  /\ LeafAt(after, c).value = value
                   /\ LeafAt(after, c).complete <=> NonBlank(value)
                   /\ SetSubSubtaskInput(after, c[1], c[2], c[3], value) = after
                   /\ ~LeafAt(SetSubSubtaskInput(after, c[1], c[2], c[3], <<>>), c).complete
      ]_vars

\* a free-text field holds a blank text and is incomplete
C13_Witness ==
    \E id \in DOMAIN taskCompletionData : \E c \in AllSubSubtasks :
        /\ LeafAt(taskCompletionData[id], c).type = "input"
        /\ LeafAt(taskCompletionData[id], c).value = <<" ">>
        /\ ~LeafAt(taskCompletionData[id], c).complete

\* C14: in every reachable state a free-text sub-subtask is complete iff its
\* stored text is not empty (blank texts counted as empty).
C14_InputCompleteIffText ==
    \A id \in DOMAIN taskCompletionData : \A c \in AllSubSubtasks :
        LET leaf == LeafAt(taskCompletionData[id], c)
        IN  leaf.type = "input" => (leaf.complete <=> NonBlank(leaf.value))

\* C15: toggleSubtask negates the flag of the addressed subtask and changes
\* nothing else in the task map.
C15_ToggleSubtaskFrame ==
    [][\A patientId \in DOMAIN taskCompletionData : \A c \in AllSubtasks :
          toggleSubtask(patientId, c[1], c[2]) =>
             taskCompletionData' =
                [taskCompletionData EXCEPT
                    ![patientId][c[1]].subtasks[c[2]].complete = ~@]
      ]_vars

\* the flag of 'Payment Received' has been set by its own checkbox while one
\* of the payment sub-subtasks is not complete, and another patient has a tree
C15_Witness ==
    /\ Cardinality(DOMAIN taskCompletionData) > 1
    /\ \E id \in DOMAIN taskCompletionData :
          LET tasks == taskCompletionData[id]
          IN  /\ InvoiceTask(tasks).subtasks[2].complete
              /\ ~(PaidQB(tasks) /\ PaidCheck(tasks))

\* C16: toggleSubSubtask negates the flag of the addressed sub-subtask, then
\* sets the flag of its subtask to the AND of the flags of all its
\* sub-subtasks; nothing else in the task map changes.
C16_ToggleSubSubtaskEffect ==
    [][\A patientId \in DOMAIN taskCompletionData : \A c \in AllSubSubtasks :
          toggleSubSubtask(patientId, c[1], c[2], c[3]) =>
             LET flipped == [taskCompletionData EXCEPT
                               ![patientId][c[1]].subtasks[c[2]].subSubtasks[c[3]].complete = ~@]
                 leaves == flipped[patientId][c[1]].subtasks[c[2]].subSubtasks
             IN  taskCompletionData' =
                    [flipped EXCEPT ![patientId][c[1]].subtasks[c[2]].complete =
                        \A l \in 1..Len(leaves) : leaves[l].complete]
      ]_vars

\* exactly one of the two payment sub-subtasks is complete and the flag of
\* 'Payment Received' is unset
C16_Witness ==
    \E id \in DOMAIN taskCompletionData :
        LET tasks == taskCompletionData[id]
        IN  /\ PaidQB(tasks) # PaidCheck(tasks)
            /\ ~InvoiceTask(tasks).subtasks[2].complete

\* the status of a task by the per-task rule of calculateProgress: none of its
\* counted items completed, all of them, or some
ProgressStatus(task) == StatusOf(TaskCompleted(task), TaskTotal(task))

FirstMatch(i, patientName) ==
    /\ NameMatches(activePatients[i], patientName)
    /\ \A j \in 1..(i - 1) : ~NameMatches(activePatients[j], patientName)

\* C18: markAllTasksComplete takes the first active patient whose name
\* contains patientName without regard to case, sets every subtask and
\* sub-subtask flag of that patient's tree (the template if it had none) and
\* leaves every other tree as it was; the progress of that patient is then 100.
C18_MarkAllCompletesFirstMatch ==
    [][\A patientName \in NameArgs : \A i \in 1..Len(activePatients) :
          (markAllTasksComplete(patientName) /\ FirstMatch(i, patientName)) =>
             LET id == activePatients[i].id
                 before == IF id \in DOMAIN taskCompletionData
                           THEN taskCompletionData[id]
                           ELSE initializePatientTasks
             IN  /\ DOMAIN taskCompletionData' = DOMAIN taskCompletionData \cup {id}
                 /\ Len(taskCompletionData'[id]) = Len(before)
                 /\ \A t \in 1..Len(before) :
                       /\ taskCompletionData'[id][t].id = before[t].id
                       /\ Len(taskCompletionData'[id][t].subtasks) = Len(before[t].subtasks)
                       /\ FullyComplete(taskCompletionData'[id][t])
                 /\ \A other \in DOMAIN taskCompletionData \ {id} :
                       taskCompletionData'[other] = taskCompletionData[other]
                 /\ calculateProgress(taskCompletionData', id) = 100
      ]_vars

\* markAllTasksComplete has completed a tree made from the template (its
\* free-text fields are empty) and the other patient's tree is unfinished
C18_Witness ==
    /\ notification.text = "All tasks marked as complete for"
    /\ PAT(1) \in DOMAIN taskCompletionData
    /\ \A t \in 1..11 : FullyComplete(taskCompletionData[PAT(1)][t])
    /\ taskCompletionData[PAT(1)][7].subtasks[1].subSubtasks[1].value = <<>>
    /\ PAT(2) \in DOMAIN taskCompletionData
    /\ calculateProgress(taskCompletionData, PAT(2)) < 100

\* a call of a handler with a patient id that has no tree, or of
\* markAllTasksComplete with a name no active patient matches
LookupMiss ==
    \/ \E patientId \in CallIds \ DOMAIN taskCompletionData :
          \/ \E c \in AllSubtasks : toggleSubtask(patientId, c[1], c[2])
          \/ \E c \in AllSubSubtasks : toggleSubSubtask(patientId, c[1], c[2], c[3])
          \/ \E c \in AllSubSubtasks, value \in Values :
                updateSubSubtaskInput(patientId, c[1], c[2], c[3], value)
    \/ \E patientName \in NameArgs :
          /\ \A i \in 1..Len(activePatients) : ~NameMatches(activePatients[i], patientName)
          /\ markAllTasksComplete(patientName)

\* C19: a lookup miss lets no exception escape and changes neither the task
\* map nor the active nor the archived collection.
C19_LookupMissIsNoOp ==
    [][LookupMiss =>
          /\ exception' = FALSE
          /\ UNCHANGED << taskCompletionData, storedTaskData, activePatients,
                          archivedPatients >>]_vars

\* a call of one of the four mutation handlers
MutationCall ==
    \/ \E patientId \in CallIds :
          \/ \E c \in AllSubtasks : toggleSubtask(patientId, c[1], c[2])
          \/ \E c \in AllSubSubtasks : toggleSubSubtask(patientId, c[1], c[2], c[3])
          \/ \E c \in AllSubSubtasks, value \in Values :
                updateSubSubtaskInput(patientId, c[1], c[2], c[3], value)
    \/ \E patientName \in NameArgs : markAllTasksComplete(patientName)

\* C20: when a mutation handler has changed the in-memory task map, the
\* persisted map equals the in-memory map at the end of the call.
C20_MutationsArePersisted ==
    [][(MutationCall /\ taskCompletionData' # taskCompletionData) =>
          storedTaskData' = taskCompletionData']_vars

(***************************************************************************)
(* Page load, fall-backs and identifiers.                                  *)
(***************************************************************************)
\* loadPersistedData reads a stored text that is not valid JSON
ReadsMalformedTaskData ==
    /\ FireInitMainApp
    /\ {"taskCompletionData", "workflowData"} \cap malformed # {}

\* loadActivePatients reads a stored active list that is not valid JSON
ReadsMalformedActiveList ==
    /\ "activePatients" \in malformed
    /\ \E ok \in BOOLEAN : SwitchTab("active-data", ok)

\* C21: an operation that reads a stored collection that is not valid JSON
\* continues with the empty collection and lets no exception escape:
\* loadPersistedData leaves the empty task map, loadActivePatients shows an
\* empty active list.
C21_MalformedFallsBackToEmpty ==
    [][/\ ReadsMalformedTaskData =>
             taskCompletionData' = EmptyMap /\ exception' = FALSE
       /\ ReadsMalformedActiveList =>
             listedPatients' = <<>> /\ exception' = FALSE]_vars

\* the page shows the stored active record p after the step
ShownAfter(p) ==
    \/ \E i \in 1..Len(listedPatients') : listedPatients'[i].name = p.name
    \/ \E i \in 1..Len(cards') : cards'[i].id = p.id

\* a view is opened and its fetch of /api/read-active fails
OpenWithFailedFetch ==
    /\ "activePatients" \notin malformed
    /\ \E tabName \in {"active-data", "timelines", "dashboard"} :
          SwitchTab(tabName, FALSE)

\* C22: when the fetch of the active snapshot fails, the view that issued it
\* (active list, timelines, dashboard) shows every patient held in the
\* stored active collection.
C22_FailedFetchShowsLocalPatients ==
    [][OpenWithFailedFetch =>
          \A i \in 1..Len(activePatients) : ShownAfter(activePatients[i])]_vars

\* card i of the timeline shows the patient of the stored active record j
SamePatient(i, j) ==
    /\ i \in 1..Len(cards)
    /\ i \in 1..Len(sheet)
    /\ j \in 1..Len(activePatients)
    /\ sheet[i].name = activePatients[j].name

\* C23: the id the timeline uses for a patient, as the key of the task tree
\* and as the argument of the toggle handlers and of autoArchivePatient,
\* equals the id of that patient's record in the stored active collection.
C23_TimelineIdIsStoredId ==
    \A i \in 1..Len(cards), j \in 1..Len(activePatients) :
        SamePatient(i, j) =>
            /\ cards[i].id = activePatients[j].id
            /\ cards[i].handlerId = activePatients[j].id

(***************************************************************************)
(* Rendering and archiving.                                                *)
(***************************************************************************)
\* C24: on every tree, the status generateImprovedTimelineSteps renders a
\* task with is the status refreshAllTaskStatuses computes for it, and the
\* invoice task is rendered complete exactly when 'Sent Invoice' and one of
\* 'Paid via Quickbooks' / 'Paid via Check' are complete.
C24_RenderedStatusIsRefreshedStatus ==
    \A id \in DOMAIN taskCompletionData :
        \A t \in 1..Len(taskCompletionData[id]) :
            LET task == taskCompletionData[id][t]
            IN  /\ generateImprovedTimelineStepsStatus(task)
                      = refreshAllTaskStatusesStatus(task)
                /\ task.id = "invoice" =>
                      ((generateImprovedTimelineStepsStatus(task) = "complete")
                         <=> (/\ FindComplete(task.subtasks, "Sent Invoice")
                              /\ \/ FindPaid(task, "Paid via Quickbooks")
                                 \/ FindPaid(task, "Paid via Check")))

\* the indices a call of archivePatient is made with
ArchiveIndices == 1..3

\* C25: archivePatient(i), for a valid index i, removes from the in-memory
\* task map the entry of the patient it archives and no other entry,
\* whether that patient is the last of the active list or not.
C25_ArchiveRemovesOwnTreeOnly ==
    [][\A i \in 1..Len(activePatients) :
          archivePatient(i) =>
             taskCompletionData' =
                Remove(taskCompletionData, IdOrTimestamp(activePatients[i]))]_vars

\* C26: archivePatient shows 'Failed to archive patient' only when it has
\* changed neither the active nor the archived collection, and reports
\* success whenever it has moved the record.
C26_FailureNoticeMeansNoChange ==
    [][\A i \in ArchiveIndices :
          archivePatient(i) =>
             /\ notification' = Notice("Failed to archive patient", <<>>) =>
                   UNCHANGED << activePatients, archivedPatients >>
             /\ archivedPatients' # archivedPatients =>
                   notification' = Notice("archived successfully",
                                          archivedPatients'[Len(archivedPatients')].name)]_vars

\* C27: the Archive button of card i moves to the archived collection the
\* record of the patient the card shows.
C27_ArchiveButtonMovesCardPatient ==
    [][\A i \in 1..Len(cards) :
          (/\ cards[i].archiveButton
           /\ archivePatient(i)
           /\ archivedPatients' # archivedPatients) =>
              /\ archivedPatients'[Len(archivedPatients')].id = cards[i].id
              /\ archivedPatients'[Len(archivedPatients')].name = sheet[i].name]_vars

\* a step in which loadActivePatients builds the list of active patients
BuildsActiveList ==
    \/ \E ok \in BOOLEAN : SwitchTab("active-data", ok)
    \/ FireAutoArchive /\ currentTab = "active-data"

\* C28: the list of active patients loadActivePatients builds, also after
\* the merge with the backend's snapshot, holds no patient whose record is
\* in the archived collection.
C28_ArchivedNotListedActive ==
    [][BuildsActiveList =>
          \A i \in 1..Len(listedPatients'), j \in 1..Len(archivedPatients') :
              listedPatients'[i].name # archivedPatients'[j].name]_vars

(***************************************************************************)
(* The auto-archive condition and its timers.                              *)
(***************************************************************************)
\* every counted item of the tree is complete: both invoice items, and every
\* subtask of the other tasks
EveryItemComplete(tasks) ==
    \A t \in 1..Len(tasks) :
        IF tasks[t].id = "invoice"
        THEN Sent(tasks) /\ (PaidQB(tasks) \/ PaidCheck(tasks))
        ELSE \A s \in 1..Len(tasks[t].subtasks) :
                EffectiveComplete(tasks[t].subtasks[s])

\* C29: calculateProgress returns 100 only for a tree of which every counted
\* item is complete (completedItems = totalItems): rounding never yields 100
\* for an unfinished checklist.
C29_HundredOnlyWhenAllComplete ==
    \A id \in DOMAIN taskCompletionData :
        calculateProgress(taskCompletionData, id) = 100 =>
            /\ CompletedItems(taskCompletionData[id]) = TotalItems(taskCompletionData[id])
            /\ EveryItemComplete(taskCompletionData[id])

\* the last operation of the user has brought the tree to 23 of 23 items
C29_Witness ==
    \E id \in DOMAIN taskCompletionData :
        /\ ops = MaxOps
        /\ calculateProgress(taskCompletionData, id) = 100
        /\ CompletedItems(taskCompletionData[id]) = 23
        /\ PendingAutoArchive(id)

\* number of records of a collection with the given id
CountId(patients, id) ==
    Cardinality({i \in 1..Len(patients) : patients[i].id = id})

\* the ids of the records of the two collections
StoredIds ==
    {activePatients[i].id : i \in 1..Len(activePatients)}
       \cup {archivedPatients[i].id : i \in 1..Len(archivedPatients)}

\* C30: each auto-archive timer that fires for an id moves the active record
\* of that id, if there is one, to the archived collection, where it is then
\* held exactly once, and changes nothing when the record has already been
\* moved; the records of the other patients stay where they are.  So after
\* several timers for one id the record is archived exactly once.
C30_RepeatedTimersArchiveOnce ==
    [][FireAutoArchive =>
          LET id == Head(timers).id
          IN  /\ IF InActive(id)
                 THEN /\ CountId(archivedPatients', id) = 1
                      /\ CountId(activePatients', id) = 0
                 ELSE UNCHANGED << activePatients, archivedPatients >>
              /\ \A other \in StoredIds \ {id} :
                    /\ CountId(activePatients', other) = CountId(activePatients, other)
                    /\ CountId(archivedPatients', other) = CountId(archivedPatients, other)
      ]_vars

\* a first timer has moved the record of the id to the archive and a second
\* timer for the same id is still to fire
C30_Witness ==
    \E id \in PatientIds :
        /\ PendingAutoArchive(id)
        /\ ~InActive(id)
        /\ \E i \in 1..Len(archivedPatients) :
              /\ archivedPatients[i].id = id
              /\ archivedPatients[i].archivedBy = "Auto-Archive (100% Complete)"

====
